---- MODULE Spec2Model ----
(***************************************************************************)
(* Model of src/caffe/parallel.cpp (hipCaffe): the device-pair planner     *)
(* DevicePair::compute, the coordinator P2PSync::Prepare / Run and the     *)
(* per-step tree synchronisation hooks on_start / on_gradients_ready.      *)
(*                                                                         *)
(* Index convention: the C++ vectors are 0-based, TLA+ sequences 1-based.  *)
(* Loop variables (d, i, j, attempts) keep the C++ values; the element the *)
(* code calls v[k] is v[k + 1] here.                                       *)
(***************************************************************************)
EXTENDS Integers, Sequences, FiniteSets, Bags, TLC

\* Longest device list handed to compute / Run.
MaxGpus == 3

\* Device ids the lists are drawn from.
DeviceIds == 0 .. (MaxGpus - 1)

\* Longest device list handed to compute when the planner is checked alone.
MaxDevices == 4

\* Device ids of the planner's lists.
PlanIds == 0 .. (MaxDevices - 1)

\* The parent of the root pair (line 186).
RootSentinel == -1

\* An int read past the end of `remaining` that is no device id (line 176).
Garbage == 99

\* No seed: a negative random_seed (line 277), a thread nobody has seeded.
Unseeded == -1

\* The values of random_seed: none, or a seed.
Seeds == {Unseeded, 42}

VARIABLES
    gpus,             \* the device list: Run's / Prepare's gpus, compute's devices
    peer_access,      \* answers hipDeviceCanAccessPeer has given so far
    ppc,              \* position inside DevicePair::compute
    remaining,        \* compute: vector<int> remaining
    pairs,            \* compute: *pairs (Prepare's local vector)
    remaining_depth,  \* compute: int remaining_depth
    d, i, j,          \* compute: loop counters
    oob,              \* compute has indexed or erased past remaining.end()
    run_pc,           \* position of the calling thread inside Run / Prepare
    this_device,      \* solver_->param().device_id() of the calling replica
    iters,            \* max_iter - initial_iter_: the steps every driver runs
    attempts, pi,     \* Prepare: loop counters (pi is Prepare's i)
    ti,               \* Run: counter of the start and stop loops
    built,            \* slot -> syncs[slot] holds a replica (slot 0 is `this`)
    device_,          \* slot -> the replica's device id
    parent_,          \* slot -> the parent's slot, or NULL
    children_,        \* slot -> sequence of the children's slots
    queue_,           \* slot -> the replica's mailbox (senders' slots, FIFO)
    data_,            \* slot -> contents of the parameter buffer
    diff_,            \* slot -> contents of the gradient buffer
    parent_grads_,    \* slot -> contents of the receive buffer on the parent
    peer_enabled,     \* <<device, peer>> pairs with peer access enabled
    tpc,              \* slot -> position of the replica's thread
    iter,             \* slot -> iterations the replica's driver has finished
    ci,               \* slot -> loop counter i of the hook being run
    popped,           \* slot -> on_gradients_ready's local `child`, or NULL
    random_seed,      \* solver_->param().random_seed()
    seed,             \* slot -> the random seed in effect on the replica's thread
    blobs,            \* the tensor list: the element count of each blob
    bpc,              \* position inside total_size / apply_buffers
    bi,               \* loop counter i of total_size / apply_buffers
    size,             \* total_size: the local `size`
    ptr,              \* apply_buffers: ptr - buffer, in elements
    total             \* apply_buffers: the argument total_size

plan_vars == <<gpus, peer_access, ppc, remaining, pairs, remaining_depth, d, i, j, oob>>

prep_vars == <<run_pc, this_device, iters, attempts, pi, ti, built, device_, parent_,
               children_, peer_enabled>>

sync_vars == <<queue_, data_, diff_, parent_grads_, tpc, iter, ci, popped>>

seed_vars == <<random_seed, seed>>

buf_vars == <<blobs, bpc, bi, size, ptr, total>>

vars == <<plan_vars, prep_vars, sync_vars, seed_vars, buf_vars>>

-----------------------------------------------------------------------------
(* total_size, lines 58-67, and apply_buffers, lines 25-56                 *)

\* Most blobs of a tensor list, and the largest element count of a blob.
MaxBlobs == 3

MaxCount == 2

BlobLists == UNION {[1 .. n -> 0 .. MaxCount] : n \in 0 .. MaxBlobs}

\* Neither function is running.
BufIdle ==
    /\ blobs = <<>>
    /\ bpc = "idle"
    /\ bi = 0 /\ size = 0 /\ ptr = 0 /\ total = 0

\* lines 60-62: total_size's loop, one blob a turn.
TotalSizeAdd ==
    /\ bpc = "ts_loop"
    /\ bi < Len(blobs)
    /\ size' = size + blobs[bi + 1]
    /\ bi' = bi + 1
    /\ UNCHANGED <<blobs, bpc, ptr, total>>
    /\ UNCHANGED <<plan_vars, prep_vars, sync_vars, seed_vars>>

\* line 66: return (size > 0) ? size : 1.
ReturnSize(n) == IF n > 0 THEN n ELSE 1

\* lines 60 (loop exit) and 66: total_size returns; apply_buffers is called
\* with the value returned, or with some other total.
TotalSizeReturn ==
    /\ bpc = "ts_loop"
    /\ bi >= Len(blobs)
    /\ size' = ReturnSize(size)
    /\ \E t \in {size'} \cup (0 .. (MaxBlobs * MaxCount + 1)) : total' = t
    /\ ptr' = 0
    /\ bi' = 0
    /\ bpc' = "ab_loop"
    /\ UNCHANGED blobs
    /\ UNCHANGED <<plan_vars, prep_vars, sync_vars, seed_vars>>

\* lines 29-53: apply_buffers' loop, one blob a turn: ptr += size.
ApplyBuffersAdvance ==
    /\ bpc = "ab_loop"
    /\ bi < Len(blobs)
    /\ ptr' = ptr + blobs[bi + 1]
    /\ bi' = bi + 1
    /\ UNCHANGED <<blobs, bpc, size, total>>
    /\ UNCHANGED <<plan_vars, prep_vars, sync_vars, seed_vars>>

\* The distance as it is, zero included.
Distance(n) == n

\* line 55: (ptr == buffer ? 1 : ptr - buffer).
ExpectedTotal(n) == IF n = 0 THEN 1 ELSE n

\* line 55: CHECK_EQ(total_size, ...).
ApplyBuffersCheck ==
    /\ bpc = "ab_loop"
    /\ bi >= Len(blobs)
    /\ bpc' = IF total = ExpectedTotal(ptr) THEN "passed" ELSE "aborted"
    /\ UNCHANGED <<blobs, bi, size, ptr, total>>
    /\ UNCHANGED <<plan_vars, prep_vars, sync_vars, seed_vars>>

-----------------------------------------------------------------------------
(* Helpers                                                                 *)

\* compute's by-value parameter.
devices == gpus

DevicePair(parent, device) == [parent |-> parent, device |-> device]

\* vector::erase(begin() + k) for an index k inside the vector (0-based k).
Erase(v, k) == SubSeq(v, 1, k) \o SubSeq(v, k + 2, Len(v))

\* A depth rounded up strictly: floor(log2 n) + 1, one pass for one device.
FloorLog2Plus1(n) == CHOOSE k \in 0 .. n : 2 ^ k > n /\ \A m \in 0 .. (k - 1) : 2 ^ m <= n

\* ceil(log2((float) n)) for n >= 1.
CeilLog2(n) == CHOOSE k \in 0 .. n : 2 ^ k >= n /\ \A m \in 0 .. (k - 1) : 2 ^ m < n

\* static_cast<int>(ceil(log2(0.0f))) converts -inf to int: any int may result.
\* The three values stand for negative, zero and positive.
Depths(n) == IF n = 0 THEN {-1, 0, 1} ELSE {CeilLog2(n)}

\* The runtime's answer to hipDeviceCanAccessPeer(&access, a, b): a fixed
\* but arbitrary relation, fixed pair by pair the first time it is asked.
CanAccessPeer(a, b, ans) ==
    /\ ans \in BOOLEAN
    /\ (<<a, b>> \in DOMAIN peer_access => ans = peer_access[<<a, b>>])
    /\ peer_access' = IF <<a, b>> \in DOMAIN peer_access
                      THEN peer_access
                      ELSE peer_access @@ (<<a, b>> :> ans)

\* No break: the same device goes on taking children in the same pass.
SameParentAgain(k) == k

\* lines 161 and 152: `break` leaves the j loop, ++i moves to the next device.
AfterPair(k) == k + 1

\* The root pair put last instead of first.
InsertRootLast(v, x) == Append(v, x)

\* pairs->insert(pairs->begin(), x), line 186.
InsertRoot(v, x) == <<x>> \o v

\* A push that puts the new pair first.
PushFront(v, x) == <<x>> \o v

\* pairs->push_back(x), lines 158 and 176.
PushBack(v, x) == Append(v, x)

\* What remaining[k] may yield for k >= remaining.size().
OobReads == PlanIds \cup DeviceIds \cup {Garbage}

\* What remaining.erase(remaining.end()) may do: fault, or move end() back.
OobErase == {"crash", "shrink"}

-----------------------------------------------------------------------------
(* DevicePair::compute, lines 117-198                                      *)

\* lines 119-122: copy the list, depth of the (disabled) board phase.
ComputeEnter ==
    /\ ppc = "entry"
    /\ remaining' = devices
    /\ pairs' = <<>>
    /\ remaining_depth' \in Depths(Len(devices))
    /\ d' = 0 /\ i' = 0 /\ j' = 0
    /\ ppc' = "board"
    /\ UNCHANGED <<gpus, peer_access, oob>>
    /\ UNCHANGED <<prep_vars, sync_vars>>
    /\ UNCHANGED <<seed_vars, buf_vars>>

\* lines 125-150: the board phase pairs nothing (its body is commented out);
\* then the depth of the P2P phase is computed.
GroupByBoard ==
    /\ ppc = "board"
    /\ remaining_depth' \in Depths(Len(remaining))
    /\ d' = 0
    /\ ppc' = "p2p_d"
    /\ UNCHANGED <<gpus, peer_access, remaining, pairs, i, j, oob>>
    /\ UNCHANGED <<prep_vars, sync_vars>>
    /\ UNCHANGED <<seed_vars, buf_vars>>

\* line 151 (loop test), and lines 166-173 when the P2P phase is over.
P2PDepth ==
    /\ ppc = "p2p_d"
    /\ IF d < remaining_depth
       THEN /\ i' = 0
            /\ ppc' = "p2p_i"
            /\ UNCHANGED <<remaining_depth, d>>
       ELSE /\ remaining_depth' \in Depths(Len(remaining))
            /\ d' = 0
            /\ ppc' = "fb_d"
            /\ UNCHANGED i
    /\ UNCHANGED <<gpus, peer_access, remaining, pairs, j, oob>>
    /\ UNCHANGED <<prep_vars, sync_vars>>
    /\ UNCHANGED <<seed_vars, buf_vars>>

\* line 152 (loop test).
P2POuter ==
    /\ ppc = "p2p_i"
    /\ IF i < Len(remaining)
       THEN /\ j' = i + 1
            /\ ppc' = "p2p_j"
            /\ UNCHANGED d
       ELSE /\ d' = d + 1
            /\ ppc' = "p2p_d"
            /\ UNCHANGED j
    /\ UNCHANGED <<gpus, peer_access, remaining, pairs, remaining_depth, i, oob>>
    /\ UNCHANGED <<prep_vars, sync_vars>>
    /\ UNCHANGED <<seed_vars, buf_vars>>

\* lines 153-163: one turn of the inner loop.
P2PInner ==
    /\ ppc = "p2p_j"
    /\ IF j < Len(remaining)
       THEN \E ans \in BOOLEAN :
              /\ CanAccessPeer(remaining[i + 1], remaining[j + 1], ans)
              /\ IF ans
                 THEN /\ pairs' = PushBack(pairs, DevicePair(remaining[i + 1], remaining[j + 1]))
                      /\ remaining' = Erase(remaining, j)
                      /\ i' = AfterPair(i)
                      /\ ppc' = "p2p_i"
                      /\ UNCHANGED j
                 ELSE /\ j' = j + 1
                      /\ UNCHANGED <<pairs, remaining, i, ppc>>
       ELSE /\ i' = i + 1
            /\ ppc' = "p2p_i"
            /\ UNCHANGED <<peer_access, pairs, remaining, j>>
    /\ UNCHANGED <<gpus, remaining_depth, d, oob>>
    /\ UNCHANGED <<prep_vars, sync_vars>>
    /\ UNCHANGED <<seed_vars, buf_vars>>

\* line 174 (loop test).
FallbackDepth ==
    /\ ppc = "fb_d"
    /\ IF d < remaining_depth
       THEN /\ i' = 0
            /\ ppc' = "fb_i"
       ELSE /\ ppc' = "check"
            /\ UNCHANGED i
    /\ UNCHANGED <<gpus, peer_access, remaining, pairs, remaining_depth, d, j, oob>>
    /\ UNCHANGED <<prep_vars, sync_vars>>
    /\ UNCHANGED <<seed_vars, buf_vars>>

\* lines 175-180: one turn of the fallback loop. remaining[i + 1] and
\* erase(begin() + i + 1) are not guarded by i + 1 < size.
FallbackPair ==
    /\ ppc = "fb_i"
    /\ IF i < Len(remaining)
       THEN IF i + 1 < Len(remaining)
            THEN /\ pairs' = PushBack(pairs, DevicePair(remaining[i + 1], remaining[i + 2]))
                 /\ remaining' = Erase(remaining, i + 1)
                 /\ i' = i + 1
                 /\ UNCHANGED <<ppc, d, oob>>
            ELSE \E v \in OobReads, e \in OobErase :
                   /\ pairs' = PushBack(pairs, DevicePair(remaining[i + 1], v))
                   /\ oob' = TRUE
                   /\ IF e = "crash"
                      THEN /\ ppc' = "crashed"
                           /\ UNCHANGED <<remaining, i>>
                      ELSE /\ remaining' = SubSeq(remaining, 1, Len(remaining) - 1)
                           /\ i' = i + 1
                           /\ UNCHANGED ppc
                   /\ UNCHANGED d
       ELSE /\ d' = d + 1
            /\ ppc' = "fb_d"
            /\ UNCHANGED <<pairs, remaining, i, oob>>
    /\ UNCHANGED <<gpus, peer_access, remaining_depth, j>>
    /\ UNCHANGED <<prep_vars, sync_vars>>
    /\ UNCHANGED <<seed_vars, buf_vars>>

\* lines 184-186: only the root may remain; it becomes pairs[0].
CheckRemaining ==
    /\ ppc = "check"
    /\ IF Len(remaining) = 1
       THEN /\ pairs' = InsertRoot(pairs, DevicePair(RootSentinel, remaining[1]))
            /\ ppc' = "verify"
       ELSE /\ ppc' = "aborted"
            /\ UNCHANGED pairs
    /\ UNCHANGED <<gpus, peer_access, remaining, remaining_depth, d, i, j, oob>>
    /\ UNCHANGED <<prep_vars, sync_vars>>
    /\ UNCHANGED <<seed_vars, buf_vars>>

\* The CHECKs of lines 188-194.
PairsChecksPass ==
    /\ Len(pairs) = Len(devices)
    /\ \A a \in 1 .. Len(pairs) :
         /\ pairs[a].parent # pairs[a].device
         /\ \A b \in (a + 1) .. Len(pairs) : pairs[a].device # pairs[b].device

\* lines 188-194.
CheckPairs ==
    /\ ppc = "verify"
    /\ ppc' = IF PairsChecksPass THEN "returned" ELSE "aborted"
    /\ UNCHANGED <<gpus, peer_access, remaining, pairs, remaining_depth, d, i, j, oob>>
    /\ UNCHANGED <<prep_vars, sync_vars>>
    /\ UNCHANGED <<seed_vars, buf_vars>>

Compute ==
    \/ ComputeEnter
    \/ GroupByBoard
    \/ P2PDepth
    \/ P2POuter
    \/ P2PInner
    \/ FallbackDepth
    \/ FallbackPair
    \/ CheckRemaining
    \/ CheckPairs

-----------------------------------------------------------------------------
(* The planner on its own: compute called on any list over PlanIds.        *)

PlanLists == UNION {[1 .. n -> PlanIds] : n \in 0 .. MaxDevices}

\* No run of P2PSync::Run is under way: there are no replicas.
NoReplicas ==
    /\ run_pc = "none"
    /\ this_device = 0
    /\ iters = 0
    /\ attempts = 0 /\ pi = 0 /\ ti = 0
    /\ built = <<>>
    /\ device_ = <<>>
    /\ parent_ = <<>>
    /\ children_ = <<>>
    /\ peer_enabled = {}
    /\ queue_ = <<>>
    /\ data_ = <<>>
    /\ diff_ = <<>>
    /\ parent_grads_ = <<>>
    /\ tpc = <<>>
    /\ iter = <<>>
    /\ ci = <<>>
    /\ popped = <<>>
    /\ random_seed = Unseeded
    /\ seed = <<>>

InitPlan ==
    /\ gpus \in PlanLists
    /\ peer_access = [p \in {} |-> FALSE]
    /\ ppc = "entry"
    /\ remaining = <<>>
    /\ pairs = <<>>
    /\ remaining_depth = 0
    /\ d = 0 /\ i = 0 /\ j = 0
    /\ oob = FALSE
    /\ NoReplicas
    /\ BufIdle

NextPlan == Compute

SpecPlan == InitPlan /\ [][NextPlan]_vars

-----------------------------------------------------------------------------
(* The buffer functions on their own: total_size called on any tensor      *)
(* list, then apply_buffers on the same list.                              *)

InitBuf ==
    /\ blobs \in BlobLists
    /\ bpc = "ts_loop"
    /\ bi = 0 /\ size = 0 /\ ptr = 0 /\ total = 0
    /\ gpus = <<>>
    /\ peer_access = [p \in {} |-> FALSE]
    /\ ppc = "idle"
    /\ remaining = <<>>
    /\ pairs = <<>>
    /\ remaining_depth = 0
    /\ d = 0 /\ i = 0 /\ j = 0
    /\ oob = FALSE
    /\ NoReplicas

NextBuf ==
    \/ TotalSizeAdd
    \/ TotalSizeReturn
    \/ ApplyBuffersAdvance
    \/ ApplyBuffersCheck

SpecBuf == InitBuf /\ [][NextBuf]_vars

-----------------------------------------------------------------------------
(* Replicas, buffers and mailboxes                                         *)

\* A null P2PSync pointer (line 402); replicas are named by their slot.
NULL == -1

\* Longest run: the largest max_iter - initial_iter_.
MaxIter == 2

\* Slots of the syncs vector (line 424); slot 0 stands for `this` (line 404).
Slots == 0 .. (IF Len(gpus) = 0 THEN 0 ELSE Len(gpus) - 1)

\* Buffer contents are sums of gradient terms <<replica, step, divisor>>: the
\* gradient replica r computes in step k, divided by `divisor`.
LocalGradient(r, k) == SetToBag({<<r, k, 1>>})

\* What hipMalloc leaves in a buffer nobody has written yet.
Uninitialized(r) == SetToBag({<<r, -1, 1>>})

\* The source alone: dst is overwritten, not added to.
GpuAddOverwrites(src, dst) == src

\* caffe_gpu_add(size_, src, dst, dst), line 356.
GpuAdd(src, dst) == src (+) dst

\* caffe_gpu_scal(size_, Dtype(1.0 / n), diff_), line 379.
GpuScal(n, buf) == BagOfAll(LAMBDA t : <<t[1], t[2], t[3] * n>>, buf)

\* Caffe::solver_count(): the number of replicas of the run.
solver_count == Len(gpus)

\* The optimizer's in-place update of the parameters with a gradient: the
\* new parameters are a function of the old ones and of the gradient.
Update(params, grad) == Append(params, grad)

\* The process is running: no CHECK has failed, no fault has happened.
Alive == run_pc \notin {"aborted", "crashed"}

Max(S) == CHOOSE x \in S : \A y \in S : y <= x

-----------------------------------------------------------------------------
(* P2PSync::Prepare, lines 384-420, and the constructor, lines 202-247     *)

\* lines 423-425 and 388-389: Run sizes syncs, Prepare calls compute.
RunEnter ==
    /\ run_pc = "start"
    /\ run_pc' = "compute"
    /\ ppc' = "entry"
    /\ UNCHANGED <<gpus, peer_access, remaining, pairs, remaining_depth, d, i, j, oob>>
    /\ UNCHANGED <<this_device, iters, attempts, pi, ti, built, device_, parent_,
                   children_, peer_enabled>>
    /\ UNCHANGED sync_vars
    /\ UNCHANGED <<seed_vars, buf_vars>>

\* lines 390-399: compute has returned; its locals are gone.
PrepareBegin ==
    /\ run_pc = "compute"
    /\ ppc = "returned"
    /\ run_pc' = "sweep"
    /\ ppc' = "idle"
    /\ remaining' = <<>>
    /\ remaining_depth' = 0
    /\ d' = 0 /\ i' = 0 /\ j' = 0
    /\ attempts' = 0
    /\ pi' = 1
    /\ UNCHANGED <<gpus, peer_access, pairs, oob>>
    /\ UNCHANGED <<this_device, iters, ti, built, device_, parent_, children_, peer_enabled>>
    /\ UNCHANGED sync_vars
    /\ UNCHANGED <<seed_vars, buf_vars>>

\* lines 402-411: the last filled slot whose device is pairs[k].parent.
FindParent(k) ==
    LET found == {s \in 0 .. (Len(gpus) - 1) : built[s] /\ device_[s] = pairs[k + 1].parent}
    IN  IF found = {} THEN NULL ELSE Max(found)

\* A registration that is forgotten.
NoPushChild(list, child) == list

\* line 415.
PushChild(list, child) == Append(list, child)

\* A single pass over the slots, however many pairs there are.
OneSweep == IF Len(pairs) > 0 THEN 1 ELSE 0

\* line 399: the number of sweeps over the slots.
Sweeps == Len(pairs)

\* lines 401-417 with the constructor (lines 203-247) it calls: one turn of
\* the inner loop.
PrepareSlot ==
    /\ run_pc = "sweep"
    /\ attempts < Sweeps
    /\ pi < Len(pairs)
    /\ pi' = pi + 1
    /\ LET parent == FindParent(pi)
           device == pairs[pi + 1].device
       IN  IF ~built[pi] /\ parent # NULL
           THEN \E ans \in BOOLEAN :
                  /\ CanAccessPeer(device, device_[parent], ans)
                  /\ IF ans /\ <<device, device_[parent]>> \in peer_enabled
                     THEN /\ run_pc' = "aborted"
                          /\ UNCHANGED peer_enabled
                     ELSE /\ peer_enabled' = IF ans
                                             THEN peer_enabled \cup {<<device, device_[parent]>>}
                                             ELSE peer_enabled
                          /\ UNCHANGED run_pc
                  /\ built' = [built EXCEPT ![pi] = TRUE]
                  /\ device_' = [device_ EXCEPT ![pi] = device]
                  /\ parent_' = [parent_ EXCEPT ![pi] = parent]
                  /\ children_' = [children_ EXCEPT ![parent] = PushChild(@, pi)]
                  /\ data_' = [data_ EXCEPT ![pi] = data_[0]]
                  /\ diff_' = [diff_ EXCEPT ![pi] = EmptyBag]
                  /\ parent_grads_' = [parent_grads_ EXCEPT ![pi] = Uninitialized(pi)]
                  /\ queue_' = [queue_ EXCEPT ![pi] = <<>>]
           ELSE /\ UNCHANGED <<peer_access, peer_enabled, run_pc, built, device_, parent_,
                               children_, data_, diff_, parent_grads_, queue_>>
    /\ UNCHANGED <<gpus, ppc, remaining, pairs, remaining_depth, d, i, j, oob>>
    /\ UNCHANGED <<this_device, iters, attempts, ti, tpc, iter, ci, popped>>
    /\ UNCHANGED <<seed_vars, buf_vars>>

\* lines 399-400: a sweep is over, the next one starts at slot 1.
PrepareNextSweep ==
    /\ run_pc = "sweep"
    /\ attempts < Sweeps
    /\ pi >= Len(pairs)
    /\ attempts' = attempts + 1
    /\ pi' = 1
    /\ UNCHANGED plan_vars
    /\ UNCHANGED <<run_pc, this_device, iters, ti, built, device_, parent_, children_,
                   peer_enabled>>
    /\ UNCHANGED sync_vars
    /\ UNCHANGED <<seed_vars, buf_vars>>

\* line 399 (loop exit) and lines 427-430: Prepare returns to Run.
PrepareReturn ==
    /\ run_pc = "sweep"
    /\ attempts >= Sweeps
    /\ run_pc' = "start_threads"
    /\ ti' = 1
    /\ UNCHANGED plan_vars
    /\ UNCHANGED <<this_device, iters, attempts, pi, built, device_, parent_, children_,
                   peer_enabled>>
    /\ UNCHANGED sync_vars
    /\ UNCHANGED <<seed_vars, buf_vars>>

-----------------------------------------------------------------------------
(* P2PSync::Run, lines 422-443, and the destructor, lines 249-269          *)

\* lines 430-432: syncs[ti]->StartInternalThread(); an empty slot is a null
\* pointer, and calling through it faults.
RunStartThread ==
    /\ run_pc = "start_threads"
    /\ ti < Len(gpus)
    /\ ti' = ti + 1
    /\ IF built[ti]
       THEN /\ tpc' = [tpc EXCEPT ![ti] = "entry"]
            /\ UNCHANGED run_pc
       ELSE /\ run_pc' = "crashed"
            /\ UNCHANGED tpc
    /\ UNCHANGED plan_vars
    /\ UNCHANGED <<this_device, iters, attempts, pi, built, device_, parent_, children_,
                   peer_enabled>>
    /\ UNCHANGED <<queue_, data_, diff_, parent_grads_, iter, ci, popped>>
    /\ UNCHANGED <<seed_vars, buf_vars>>

\* lines 434-437: the root solver runs on the calling thread.
RunSolve ==
    /\ run_pc = "start_threads"
    /\ ti >= Len(gpus)
    /\ run_pc' = "solve"
    /\ tpc' = [tpc EXCEPT ![0] = "step"]
    /\ UNCHANGED plan_vars
    /\ UNCHANGED <<this_device, iters, attempts, pi, ti, built, device_, parent_, children_,
                   peer_enabled>>
    /\ UNCHANGED <<queue_, data_, diff_, parent_grads_, iter, ci, popped>>
    /\ UNCHANGED <<seed_vars, buf_vars>>

\* lines 437-440: Solve has returned.
RunSolveReturn ==
    /\ run_pc = "solve"
    /\ tpc[0] = "done"
    /\ run_pc' = "stop_threads"
    /\ ti' = 1
    /\ UNCHANGED plan_vars
    /\ UNCHANGED <<this_device, iters, attempts, pi, built, device_, parent_, children_,
                   peer_enabled>>
    /\ UNCHANGED sync_vars
    /\ UNCHANGED <<seed_vars, buf_vars>>

\* lines 440-442: syncs[ti]->StopInternalThread() joins the worker.
RunStopThread ==
    /\ run_pc = "stop_threads"
    /\ ti < Len(gpus)
    /\ tpc[ti] = "done"
    /\ tpc' = [tpc EXCEPT ![ti] = "joined"]
    /\ ti' = ti + 1
    /\ UNCHANGED plan_vars
    /\ UNCHANGED <<run_pc, this_device, iters, attempts, pi, built, device_, parent_,
                   children_, peer_enabled>>
    /\ UNCHANGED <<queue_, data_, diff_, parent_grads_, iter, ci, popped>>
    /\ UNCHANGED <<seed_vars, buf_vars>>

\* A destructor that disables nothing.
DisablesNothing(s) == {}

\* lines 257-265: the peer access ~P2PSync of slot s disables.
Disabled(s) ==
    IF parent_[s] # NULL /\ peer_access[<<device_[s], device_[parent_[s]]>>]
    THEN {<<device_[s], device_[parent_[s]]>>}
    ELSE {}

\* line 443: Run returns; syncs goes out of scope and destroys the replicas
\* of slots 1 .. N-1 (lines 249-269).
RunReturn ==
    /\ run_pc = "stop_threads"
    /\ ti >= Len(gpus)
    /\ run_pc' = "returned"
    /\ peer_enabled' = peer_enabled \ UNION {Disabled(s) : s \in {t \in Slots : t # 0 /\ built[t]}}
    /\ built' = [s \in Slots |-> s = 0]
    /\ UNCHANGED plan_vars
    /\ UNCHANGED <<this_device, iters, attempts, pi, ti, device_, parent_, children_>>
    /\ UNCHANGED sync_vars
    /\ UNCHANGED <<seed_vars, buf_vars>>

-----------------------------------------------------------------------------
(* The worker thread and the driver's step loop                            *)

\* lines 281-282: random_seed() + device_id().
Reseed(s) == random_seed + device_[s]

\* lines 272-284: InternalThreadEntry up to the call of Step.
ThreadEntry(s) ==
    /\ Alive
    /\ tpc[s] = "entry"
    /\ seed' = [seed EXCEPT ![s] = IF random_seed >= 0 THEN Reseed(s) ELSE @]
    /\ UNCHANGED <<random_seed, buf_vars>>
    /\ tpc' = [tpc EXCEPT ![s] = "step"]
    /\ UNCHANGED plan_vars
    /\ UNCHANGED prep_vars
    /\ UNCHANGED <<queue_, data_, diff_, parent_grads_, iter, ci, popped>>

\* A worker that runs one step more than the root.
StepsOffByOne(s) == IF s = 0 THEN iters ELSE iters + 1

\* line 284 (and Solve, line 437): max_iter - initial_iter_ steps.
StepsToRun(s) == iters

\* Solver::Step(iters): the loop test, then the on_start callback.
StepLoop(s) ==
    /\ Alive
    /\ tpc[s] = "step"
    /\ tpc' = [tpc EXCEPT ![s] = IF iter[s] < StepsToRun(s) THEN "on_start" ELSE "done"]
    /\ UNCHANGED plan_vars
    /\ UNCHANGED prep_vars
    /\ UNCHANGED <<queue_, data_, diff_, parent_grads_, iter, ci, popped>>
    /\ UNCHANGED <<seed_vars, buf_vars>>

\* Solver::Step: forward and backward leave the step's gradient in diff_;
\* then the on_gradients_ready callback.
ForwardBackward(s) ==
    /\ Alive
    /\ tpc[s] = "compute"
    /\ diff_' = [diff_ EXCEPT ![s] = LocalGradient(s, iter[s])]
    /\ ci' = [ci EXCEPT ![s] = 0]
    /\ tpc' = [tpc EXCEPT ![s] = "ogr_loop"]
    /\ UNCHANGED plan_vars
    /\ UNCHANGED prep_vars
    /\ UNCHANGED <<queue_, data_, parent_grads_, iter, popped>>
    /\ UNCHANGED <<seed_vars, buf_vars>>

\* Solver::Step: ApplyUpdate (empty in a WorkerSolver), ++iter_.
ApplyUpdate(s) ==
    /\ Alive
    /\ tpc[s] = "update"
    /\ data_' = [data_ EXCEPT ![s] = IF parent_[s] = NULL THEN Update(@, diff_[s]) ELSE @]
    /\ iter' = [iter EXCEPT ![s] = @ + 1]
    /\ tpc' = [tpc EXCEPT ![s] = "step"]
    /\ UNCHANGED plan_vars
    /\ UNCHANGED prep_vars
    /\ UNCHANGED <<queue_, diff_, parent_grads_, ci, popped>>
    /\ UNCHANGED <<seed_vars, buf_vars>>

-----------------------------------------------------------------------------
(* P2PSync::on_start, lines 287-323                                        *)

\* A hand-off that is queued twice.
PushTwice(q, x) == Append(Append(q, x), x)

\* BlockingQueue::push(x), lines 320 and 375.
Push(q, x) == Append(q, x)

\* A replica that never waits for its parent.
NeverWaits(s) == FALSE

\* line 299: if (parent_).
HasParent(s) == parent_[s] # NULL

\* The first child, whatever i is.
FirstChild(s) == children_[s][1]

\* line 307: children_[i].
CopyTarget(s) == children_[s][ci[s] + 1]

\* The destination as it was: the copy has not landed.
UnsyncedCopy(s) == data_[children_[s][ci[s] + 1]]

\* lines 317-319: what the child's data_ holds once hipStreamSynchronize
\* has returned: the parent's data_.
SyncedCopy(s) == data_[s]

\* lines 298-305: wait for the parent's hand-off, check the sender.
OnStartPop(s) ==
    /\ Alive
    /\ tpc[s] = "on_start"
    /\ IF HasParent(s)
       THEN /\ queue_[s] # <<>>
            /\ queue_' = [queue_ EXCEPT ![s] = Tail(@)]
            /\ IF Head(queue_[s]) = parent_[s]
               THEN /\ tpc' = [tpc EXCEPT ![s] = "os_loop"]
                    /\ UNCHANGED run_pc
               ELSE /\ run_pc' = "aborted"
                    /\ UNCHANGED tpc
       ELSE /\ tpc' = [tpc EXCEPT ![s] = "os_loop"]
            /\ UNCHANGED <<queue_, run_pc>>
    /\ ci' = [ci EXCEPT ![s] = Len(children_[s]) - 1]
    /\ UNCHANGED plan_vars
    /\ UNCHANGED <<this_device, iters, attempts, pi, ti, built, device_, parent_,
                   children_, peer_enabled>>
    /\ UNCHANGED <<data_, diff_, parent_grads_, iter, popped>>
    /\ UNCHANGED <<seed_vars, buf_vars>>

\* lines 305-318: the loop test and hipMemcpyAsync towards children_[i].
OnStartIssue(s) ==
    /\ Alive
    /\ tpc[s] = "os_loop"
    /\ ci[s] >= 0
    /\ tpc' = [tpc EXCEPT ![s] = "os_issued"]
    /\ UNCHANGED plan_vars
    /\ UNCHANGED prep_vars
    /\ UNCHANGED <<queue_, data_, diff_, parent_grads_, iter, ci, popped>>
    /\ UNCHANGED <<seed_vars, buf_vars>>

\* line 319: hipStreamSynchronize returns once the copy has landed.
OnStartSync(s) ==
    /\ Alive
    /\ tpc[s] = "os_issued"
    /\ data_' = [data_ EXCEPT ![CopyTarget(s)] = SyncedCopy(s)]
    /\ tpc' = [tpc EXCEPT ![s] = "os_push"]
    /\ UNCHANGED plan_vars
    /\ UNCHANGED prep_vars
    /\ UNCHANGED <<queue_, diff_, parent_grads_, iter, ci, popped>>
    /\ UNCHANGED <<seed_vars, buf_vars>>

\* lines 320-321: hand the buffer over, next child.
OnStartPush(s) ==
    /\ Alive
    /\ tpc[s] = "os_push"
    /\ queue_' = [queue_ EXCEPT ![CopyTarget(s)] = Push(@, s)]
    /\ ci' = [ci EXCEPT ![s] = @ - 1]
    /\ tpc' = [tpc EXCEPT ![s] = "os_loop"]
    /\ UNCHANGED plan_vars
    /\ UNCHANGED prep_vars
    /\ UNCHANGED <<data_, diff_, parent_grads_, iter, popped>>
    /\ UNCHANGED <<seed_vars, buf_vars>>

\* line 305 (loop exit): on_start returns, the forward pass begins.
OnStartReturn(s) ==
    /\ Alive
    /\ tpc[s] = "os_loop"
    /\ ci[s] < 0
    /\ tpc' = [tpc EXCEPT ![s] = "compute"]
    /\ UNCHANGED plan_vars
    /\ UNCHANGED prep_vars
    /\ UNCHANGED <<queue_, data_, diff_, parent_grads_, iter, ci, popped>>
    /\ UNCHANGED <<seed_vars, buf_vars>>

-----------------------------------------------------------------------------
(* P2PSync::on_gradients_ready, lines 325-382                              *)

\* A reduction that waits for no child.
NoChildren(s) == 0

\* line 336: i < children_.size().
ChildrenToWait(s) == Len(children_[s])

\* lines 336-337: wait for a child's hand-off.
OgrPop(s) ==
    /\ Alive
    /\ tpc[s] = "ogr_loop"
    /\ ci[s] < ChildrenToWait(s)
    /\ queue_[s] # <<>>
    /\ popped' = [popped EXCEPT ![s] = Head(queue_[s])]
    /\ queue_' = [queue_ EXCEPT ![s] = Tail(@)]
    /\ tpc' = [tpc EXCEPT ![s] = "ogr_add"]
    /\ UNCHANGED plan_vars
    /\ UNCHANGED prep_vars
    /\ UNCHANGED <<data_, diff_, parent_grads_, iter, ci>>
    /\ UNCHANGED <<seed_vars, buf_vars>>

\* lines 338-357: add the popped replica's parent_grads_ into diff_; the
\* loop body's local `child` ends with it.
OgrAdd(s) ==
    /\ Alive
    /\ tpc[s] = "ogr_add"
    /\ diff_' = [diff_ EXCEPT ![s] = GpuAdd(parent_grads_[popped[s]], @)]
    /\ popped' = [popped EXCEPT ![s] = NULL]
    /\ ci' = [ci EXCEPT ![s] = @ + 1]
    /\ tpc' = [tpc EXCEPT ![s] = "ogr_loop"]
    /\ UNCHANGED plan_vars
    /\ UNCHANGED prep_vars
    /\ UNCHANGED <<queue_, data_, parent_grads_, iter>>
    /\ UNCHANGED <<seed_vars, buf_vars>>

\* lines 360-373: a replica with a parent issues the copy of diff_.
OgrIssue(s) ==
    /\ Alive
    /\ tpc[s] = "ogr_loop"
    /\ ci[s] >= ChildrenToWait(s)
    /\ parent_[s] # NULL
    /\ tpc' = [tpc EXCEPT ![s] = "ogr_issued"]
    /\ UNCHANGED plan_vars
    /\ UNCHANGED prep_vars
    /\ UNCHANGED <<queue_, data_, diff_, parent_grads_, iter, ci, popped>>
    /\ UNCHANGED <<seed_vars, buf_vars>>

\* line 374: hipStreamSynchronize returns once the copy has landed.
OgrSync(s) ==
    /\ Alive
    /\ tpc[s] = "ogr_issued"
    /\ parent_grads_' = [parent_grads_ EXCEPT ![s] = diff_[s]]
    /\ tpc' = [tpc EXCEPT ![s] = "ogr_push"]
    /\ UNCHANGED plan_vars
    /\ UNCHANGED prep_vars
    /\ UNCHANGED <<queue_, data_, diff_, iter, ci, popped>>
    /\ UNCHANGED <<seed_vars, buf_vars>>

\* The hand-off put into the sender's own mailbox.
GradToSelf(s) == s

\* line 375: parent_->queue_.
GradTarget(s) == parent_[s]

\* line 375: hand the gradients over to the parent.
OgrPush(s) ==
    /\ Alive
    /\ tpc[s] = "ogr_push"
    /\ queue_' = [queue_ EXCEPT ![GradTarget(s)] = Push(@, s)]
    /\ tpc' = [tpc EXCEPT ![s] = "update"]
    /\ UNCHANGED plan_vars
    /\ UNCHANGED prep_vars
    /\ UNCHANGED <<data_, diff_, parent_grads_, iter, ci, popped>>
    /\ UNCHANGED <<seed_vars, buf_vars>>

\* lines 376-380: the root divides by the number of solvers.
OgrScal(s) ==
    /\ Alive
    /\ tpc[s] = "ogr_loop"
    /\ ci[s] >= ChildrenToWait(s)
    /\ parent_[s] = NULL
    /\ diff_' = [diff_ EXCEPT ![s] = GpuScal(solver_count, @)]
    /\ tpc' = [tpc EXCEPT ![s] = "update"]
    /\ UNCHANGED plan_vars
    /\ UNCHANGED prep_vars
    /\ UNCHANGED <<queue_, data_, parent_grads_, iter, ci, popped>>
    /\ UNCHANGED <<seed_vars, buf_vars>>

-----------------------------------------------------------------------------
(* The whole run: Run(gpus) called on the replica of this_device.          *)

\* The lists Run is called on: every list of distinct ids in increasing
\* order, the empty list, every list that names a device twice and a list
\* whose first device is not its smallest.
RunLists ==
    {v \in UNION {[1 .. n -> DeviceIds] : n \in 0 .. MaxGpus} :
       \/ \A a, b \in 1 .. Len(v) : a < b => v[a] < v[b]
       \/ \E a, b \in 1 .. Len(v) : a < b /\ v[a] = v[b]} \cup {<<1, 0>>}

\* The seed in effect on the calling thread when Run is called: the driver
\* seeded itself with the configured seed when it was built.
CallerSeed == IF random_seed >= 0 THEN random_seed ELSE Unseeded

\* Run is called with random_seed drawn from seeds.
RunInit(seeds) ==
    /\ random_seed \in seeds
    /\ gpus \in RunLists
    /\ seed = [s \in Slots |-> IF s = 0 THEN CallerSeed ELSE Unseeded]
    /\ this_device \in DeviceIds
    /\ iters = MaxIter
    /\ peer_access = [p \in {} |-> FALSE]
    /\ ppc = "idle"
    /\ remaining = <<>>
    /\ pairs = <<>>
    /\ remaining_depth = 0
    /\ d = 0 /\ i = 0 /\ j = 0
    /\ oob = FALSE
    /\ run_pc = "start"
    /\ attempts = 0 /\ pi = 0 /\ ti = 0
    /\ built = [s \in Slots |-> s = 0]
    /\ device_ = [s \in Slots |-> IF s = 0 THEN this_device ELSE NULL]
    /\ parent_ = [s \in Slots |-> NULL]
    /\ children_ = [s \in Slots |-> <<>>]
    /\ peer_enabled = {}
    /\ queue_ = [s \in Slots |-> <<>>]
    /\ data_ = [s \in Slots |-> <<>>]
    /\ diff_ = [s \in Slots |-> EmptyBag]
    /\ parent_grads_ = [s \in Slots |-> Uninitialized(s)]
    /\ tpc = [s \in Slots |-> "none"]
    /\ iter = [s \in Slots |-> 0]
    /\ ci = [s \in Slots |-> 0]
    /\ popped = [s \in Slots |-> NULL]
    /\ BufIdle

\* A run with a seed configured.
Init == RunInit(Seeds \ {Unseeded})

\* A run with or without a seed.
InitAnySeed == RunInit(Seeds)

Next ==
    \/ RunEnter
    \/ Compute
    \/ PrepareBegin
    \/ PrepareSlot
    \/ PrepareNextSweep
    \/ PrepareReturn
    \/ RunStartThread
    \/ RunSolve
    \/ RunSolveReturn
    \/ RunStopThread
    \/ RunReturn
    \/ \E s \in Slots : ThreadEntry(s)
    \/ \E s \in Slots : StepLoop(s)
    \/ \E s \in Slots : OnStartPop(s)
    \/ \E s \in Slots : OnStartIssue(s)
    \/ \E s \in Slots : OnStartSync(s)
    \/ \E s \in Slots : OnStartPush(s)
    \/ \E s \in Slots : OnStartReturn(s)
    \/ \E s \in Slots : ForwardBackward(s)
    \/ \E s \in Slots : OgrPop(s)
    \/ \E s \in Slots : OgrAdd(s)
    \/ \E s \in Slots : OgrIssue(s)
    \/ \E s \in Slots : OgrSync(s)
    \/ \E s \in Slots : OgrPush(s)
    \/ \E s \in Slots : OgrScal(s)
    \/ \E s \in Slots : ApplyUpdate(s)

Spec == Init /\ [][Next]_vars

\* Threads are scheduled fairly: a step that stays possible is taken.
LiveSpec == Init /\ [][Next]_vars /\ WF_vars(Next)

SpecSeed == InitAnySeed /\ [][Next]_vars

-----------------------------------------------------------------------------
(* Vocabulary of the properties                                            *)

Distinct(v) == \A a, b \in 1 .. Len(v) : a # b => v[a] # v[b]

\* A list compute accepts: one or more distinct device ids.
ValidList == Len(gpus) >= 1 /\ Distinct(gpus)

Elems(v) == {v[k] : k \in 1 .. Len(v)}

ComputeEnded == ppc \in {"returned", "aborted", "crashed"}

\* The pair list's parent of a device (the pair whose device it is).
PairParent(dev) ==
    LET k == CHOOSE k \in 1 .. Len(pairs) : pairs[k].device = dev
    IN  pairs[k].parent

RECURSIVE ClimbsToRoot(_, _)
\* Following parent links from dev reaches pairs[0].device in n steps or fewer.
ClimbsToRoot(dev, n) ==
    \/ dev = pairs[1].device
    \/ /\ n > 0
       /\ \E k \in 2 .. Len(pairs) : pairs[k].device = dev
       /\ ClimbsToRoot(PairParent(dev), n - 1)

WellFormedPairs ==
    /\ Len(pairs) = Len(devices)
    /\ pairs[1].parent = RootSentinel
    /\ Distinct([k \in 1 .. Len(pairs) |-> pairs[k].device])
    /\ {pairs[k].device : k \in 1 .. Len(pairs)} = Elems(devices)
    /\ \A k \in 1 .. Len(pairs) : pairs[k].parent # pairs[k].device
    /\ \A k \in 2 .. Len(pairs) : pairs[k].parent \in Elems(devices)
    /\ \A k \in 1 .. Len(pairs) : ClimbsToRoot(pairs[k].device, Len(pairs))

\* The replicas that exist.
Replicas == {s \in Slots : built[s]}

RECURSIVE ReachesRoot(_, _)
\* Following parent_ from replica s reaches slot 0 in n steps or fewer.
ReachesRoot(s, n) ==
    \/ s = 0
    \/ /\ n > 0
       /\ parent_[s] \in Replicas
       /\ ReachesRoot(parent_[s], n - 1)

\* Positions of a thread inside on_start, after the wait for the parent.
InScatter == {"os_loop", "os_issued", "os_push"}

\* Positions of a thread inside on_gradients_ready.
InGather == {"ogr_loop", "ogr_add", "ogr_issued", "ogr_push"}

\* The index i at which on_start handles child c of replica p.
ChildIndex(p, c) == (CHOOSE k \in 1 .. Len(children_[p]) : children_[p][k] = c) - 1

\* In its current step, p is past the hipStreamSynchronize of the copy to c.
CopyDone(p, c) ==
    \/ tpc[p] \in {"compute", "update"} \cup InGather
    \/ /\ tpc[p] \in InScatter
       /\ \/ ChildIndex(p, c) > ci[p]
          \/ ChildIndex(p, c) = ci[p] /\ tpc[p] = "os_push"

\* The step of replica c's on_start: the one it is in, or the next one when
\* it has left on_gradients_ready.
NextStart(c) == IF tpc[c] = "update" THEN iter[c] + 1 ELSE iter[c]

\* The root has returned from on_gradients_ready of step k.
RootReduced(k) == iter[0] > k \/ (iter[0] = k /\ tpc[0] = "update")

\* Replica s has pushed its gradients of step k to its parent.
GradientsPushed(s, k) == iter[s] > k \/ (iter[s] = k /\ tpc[s] = "update")

\* Prepare is over with every slot filled.
TreeBuilt == run_pc = "start_threads" /\ \A s \in Slots : built[s]

-----------------------------------------------------------------------------
(* Properties                                                              *)

\* C1: for every list of one or more distinct devices and every peer-access
\* relation, compute returns, and returns a well-formed in-tree: as many
\* pairs as devices, pairs[0].parent = -1, the pairs' devices a permutation
\* of the input, no pair its own parent, every other parent an input device,
\* every device reaching pairs[0].device along parent links.
C1_ComputeReturnsInTree ==
    (ValidList /\ ComputeEnded) => (ppc = "returned" /\ WellFormedPairs)

\* C2: for every valid list the fallback phase never indexes or erases past
\* the end of `remaining`, and exactly one device remains when
\* CHECK_EQ(remaining.size(), 1) is evaluated.
C2_FallbackStaysInBounds ==
    ValidList => (~oob /\ (ppc = "check" => Len(remaining) = 1))

\* C3: when the root returns from on_gradients_ready of step k its diff is
\* the sum of the step-k gradients of all N replicas, each once, divided by
\* N; nothing but the root's diff is ever divided, and the root's diff is
\* not divided while the root is still reducing its children.
C3_GradientConservation ==
    /\ tpc[0] = "update" =>
         diff_[0] = SetToBag({<<s, iter[0], solver_count>> : s \in Slots})
    /\ \A s \in Slots :
         /\ \A t \in BagToSet(parent_grads_[s]) : t[3] = 1
         /\ (s # 0 \/ tpc[0] \in InGather) => \A t \in BagToSet(diff_[s]) : t[3] = 1

C3_Witness ==
    /\ tpc[0] = "update"
    /\ iter[0] = 1
    /\ Len(gpus) = 3
    /\ \E s \in Slots : parent_[s] \notin {NULL, 0}

\* C4: when a replica returns from on_start of step k its data buffer is
\* the root's data buffer of the end of step k-1: the initial parameters
\* with the root's first k updates applied.
C4_ParameterConsistency ==
    \A s \in Replicas :
      tpc[s] = "compute" =>
        /\ Len(data_[0]) >= iter[s]
        /\ data_[s] = SubSeq(data_[0], 1, iter[s])

C4_Witness ==
    \E s \in Replicas :
      /\ tpc[s] = "compute"
      /\ iter[s] = 1
      /\ parent_[s] \notin {NULL, 0}

\* C5: once Prepare has built the whole tree, under fair scheduling Run
\* returns, and every replica has then run all its steps.
C5_RunTerminates ==
    [](TreeBuilt => <>(run_pc = "returned" /\ \A s \in Slots : iter[s] = iters))

C5_Witness ==
    /\ run_pc = "returned"
    /\ Len(gpus) = 3
    /\ iters = 2
    /\ \A s \in Slots : iter[s] = iters

\* C6: whenever a parent's hand-off is in a child's mailbox, or the child
\* has taken it and is in on_start or in its forward/backward pass, the
\* parent is in the step the hand-off is for, past the hipStreamSynchronize
\* of its copy to that child, and the child's data buffer holds the parent's.
C6_ScatterOrdering ==
    \A c \in Replicas :
      (parent_[c] # NULL /\ (parent_[c] \in Elems(queue_[c])
                             \/ tpc[c] \in InScatter \cup {"compute"})) =>
        /\ iter[parent_[c]] = NextStart(c)
        /\ CopyDone(parent_[c], c)
        /\ data_[c] = data_[parent_[c]]

C6_Witness ==
    \E c \in Replicas :
      /\ parent_[c] # NULL
      /\ tpc[c] = "compute"
      /\ iter[c] = 1
      /\ tpc[parent_[c]] = "os_issued"

\* C7: a replica that has returned from on_start of step k+1 finds the root
\* past on_gradients_ready of step k; once the root is past it, every
\* non-root replica has pushed its step-k gradients; and two replicas in
\* their forward/backward pass are in the same step.
C7_CrossStepBarrier ==
    /\ \A s \in Replicas :
         (tpc[s] = "compute" /\ iter[s] > 0) => RootReduced(iter[s] - 1)
    /\ \A k \in 0 .. MaxIter :
         (tpc[0] # "none" /\ RootReduced(k)) =>
           \A s \in Replicas \ {0} : GradientsPushed(s, k)
    /\ \A s, t \in Replicas :
         (tpc[s] = "compute" /\ tpc[t] = "compute") => iter[s] = iter[t]

C7_Witness ==
    \E s, t \in Replicas :
      /\ s # t
      /\ tpc[s] = "compute" /\ tpc[t] = "compute"
      /\ iter[s] = 1

\* The fields Prepare gives the replica of slot s.
SlotAsPlanned(s) ==
    /\ built[s]
    /\ device_[s] = pairs[s + 1].device
    /\ parent_[s] \in Replicas
    /\ device_[parent_[s]] = pairs[s + 1].parent
    /\ Len(SelectSeq(children_[parent_[s]], LAMBDA c : c = s)) = 1

\* C8: when the planner's root is the calling replica's device, a slot is
\* filled only while a replica of its pair's parent device exists, with that
\* replica as parent, the pair's device as device, and is appended to that
\* parent's children; a filled slot is never filled again; and when Prepare
\* hands over to the thread start loop every slot 1..N-1 is filled.
C8_PrepareFillsSlots ==
    [][ /\ \A s \in Slots \ {0} :
             /\ (~built[s] /\ built'[s]) =>
                  /\ run_pc = "sweep" /\ pi = s
                  /\ FindParent(s) # NULL
                  /\ parent_'[s] = FindParent(s)
                  /\ device_'[s] = pairs[s + 1].device
                  /\ children_'[FindParent(s)] = Append(children_[FindParent(s)], s)
             /\ (built[s] /\ built'[s]) =>
                  /\ parent_'[s] = parent_[s]
                  /\ device_'[s] = device_[s]
             /\ (built[s] /\ ~built'[s]) => run_pc' = "returned"
        /\ (run_pc' = "start_threads" /\ pairs'[1].device = this_device') =>
             \A s \in Slots \ {0} : SlotAsPlanned(s)'
      ]_vars

C8_Witness ==
    /\ run_pc = "start_threads"
    /\ Len(gpus) = 3
    /\ pairs[1].device = this_device
    /\ \A s \in Slots : built[s]
    /\ parent_[1] = 2

\* C9: while the replicas exist (from before Prepare until Run returns and
\* destroys them), exactly one has no parent, every one reaches it along
\* parent links, and a node's children list holds exactly the replicas whose
\* parent it is, each once.
C9_ReplicaGraph ==
    run_pc # "returned" =>
      /\ {s \in Replicas : parent_[s] = NULL} = {0}
      /\ \A s \in Replicas : ReachesRoot(s, Cardinality(Slots))
      /\ \A n \in Replicas :
           /\ Elems(children_[n]) = {s \in Replicas : parent_[s] = n}
           /\ Distinct(children_[n])

C9_Witness ==
    /\ run_pc = "sweep"
    /\ Cardinality(Replicas) = 3
    /\ \E s \in Replicas : parent_[s] \notin {NULL, 0}

\* C10 as stated: the pair of a non-root parent comes before the pairs of
\* its children.
C10_ParentBeforeChild ==
    ppc = "returned" =>
      \A a \in 2 .. Len(pairs) :
        pairs[a].parent # pairs[1].device =>
          \E b \in 2 .. (a - 1) : pairs[b].device = pairs[a].parent

\* C10 amended: the pair of a non-root parent comes after the pairs of its
\* children (a device is paired as a child only after it has stopped
\* taking children).
C10_ChildBeforeParent ==
    ppc = "returned" =>
      \A a \in 2 .. Len(pairs) :
        pairs[a].parent # pairs[1].device =>
          \E b \in (a + 1) .. Len(pairs) : pairs[b].device = pairs[a].parent

C10_Witness ==
    /\ ppc = "returned"
    /\ \E a \in 2 .. Len(pairs) : pairs[a].parent # pairs[1].device

\* The number of pairs that name dev as their parent.
ChildCount(dev) == Cardinality({k \in 1 .. Len(pairs) : pairs[k].parent = dev})

\* C11 as stated: in every list compute returns, each device is the parent
\* of at most two pairs.
C11_BinaryTree ==
    ppc = "returned" => \A dev \in Elems(devices) : ChildCount(dev) <= 2

\* C11 amended: a device takes at most one child in each depth pass of the
\* P2P loop and of the fallback loop, so in every list compute returns each
\* device is the parent of at most ceil(log2 N) + ceil(log2 R) pairs, N the
\* number of devices and R the number left when the fallback loop begins.
C11_OneChildPerPass ==
    ppc = "returned" =>
      \A dev \in Elems(devices) :
        ChildCount(dev) <= CeilLog2(Len(devices)) + remaining_depth

C11_Witness ==
    /\ ppc = "returned"
    /\ \E dev \in Elems(devices) : ChildCount(dev) = 3

\* compute has returned its pair list (to its caller, or to Prepare).
PairsReturned == ppc = "returned" \/ (ppc = "idle" /\ run_pc # "start")

\* C12: the list compute returns starts with (-1, devices[0]) and names
\* devices[0] as the child of no pair; the calling replica (slot 0) is the
\* one replica without a parent, and no other replica is on devices[0].
C12_RootIsFirst ==
    /\ PairsReturned =>
         /\ pairs[1] = DevicePair(RootSentinel, devices[1])
         /\ \A k \in 2 .. Len(pairs) : pairs[k].device # devices[1]
    /\ \A s \in Replicas :
         /\ parent_[s] = NULL <=> s = 0
         /\ s # 0 => device_[s] # gpus[1]

C12_Witness ==
    /\ TreeBuilt
    /\ Len(gpus) = 2
    /\ gpus[1] > gpus[2]
    /\ device_[0] = gpus[1]

\* The replica's driver has begun stepping.
Stepping(s) == tpc[s] \notin {"none", "entry"}

\* C13: the seed in effect for every replica whose driver has begun to step,
\* the root included, is random_seed + its device id when a seed is
\* configured, and no seed is set when none is.
C13_SeedPerDevice ==
    \A s \in Replicas :
      Stepping(s) =>
        seed[s] = IF random_seed >= 0 THEN random_seed + device_[s] ELSE Unseeded

\* Nothing of the tree exists: no replica but the caller's, no peer access
\* enabled, no worker thread started.
NothingBuilt ==
    /\ Replicas = {0}
    /\ peer_enabled = {}
    /\ \A s \in Slots : tpc[s] = "none"

\* C14: Run on an empty list or on a list that names a device twice ends in
\* a failed CHECK inside compute, and nothing of the tree is ever built.
C14_ConfigErrorsRejected ==
    ~ValidList =>
      /\ NothingBuilt
      /\ ppc # "returned"
      /\ ComputeEnded => ppc = "aborted"

\* C15: Run on a one-element list is accepted; compute yields exactly
\* [(-1, d)]; no replica is constructed, no thread started, no peer access
\* enabled; the root has no parent and no children, so its hooks never pop
\* or push and its mailbox stays empty; and on_gradients_ready leaves in the
\* root's diff the step's local gradient scaled by 1/1.
C15_SingleDevice ==
    Len(gpus) = 1 =>
      /\ ppc \notin {"aborted", "crashed"}
      /\ Alive
      /\ PairsReturned => pairs = <<DevicePair(RootSentinel, gpus[1])>>
      /\ NothingBuilt \/ (Replicas = {0} /\ peer_enabled = {} /\ tpc[0] # "none")
      /\ parent_[0] = NULL /\ children_[0] = <<>>
      /\ queue_[0] = <<>>
      /\ tpc[0] \notin {"os_issued", "os_push", "ogr_add", "ogr_issued", "ogr_push"}
      /\ tpc[0] = "update" => diff_[0] = LocalGradient(0, iter[0])
      /\ Len(data_[0]) = iter[0]

C15_Witness ==
    /\ Len(gpus) = 1
    /\ run_pc = "returned"
    /\ iter[0] = iters
    /\ iters > 1

RECURSIVE SumCounts(_)
\* The sum of the element counts of a tensor list.
SumCounts(v) == IF v = <<>> THEN 0 ELSE Head(v) + SumCounts(Tail(v))

\* C16: total_size returns max(1, sum of the counts); apply_buffers' check
\* passes when it is given that value, for every list, and fails for every
\* other total.
C16_BufferSize ==
    /\ bpc \in {"ab_loop", "passed", "aborted"} =>
         size = Max({1, SumCounts(blobs)})
    /\ bpc = "passed" => total = size
    /\ bpc = "aborted" => total # size

C16_Witness ==
    /\ bpc = "passed"
    /\ Len(blobs) = 2
    /\ SumCounts(blobs) = 0
    /\ total = 1

\* The children of replica s whose step-k hand-off s has popped and added.
Gathered(s) ==
    {c \in Elems(children_[s]) :
       GradientsPushed(c, iter[s]) /\ c \notin Elems(queue_[s]) /\ c # popped[s]}

\* C17: what a replica can pop in on_start is its parent and nothing else;
\* what it can pop in on_gradients_ready are its children, no child twice;
\* the child popped is one whose hand-off of this step was not popped yet,
\* and the loop's counter is the number of children popped in this step.
C17_SenderConsistency ==
    \A s \in Replicas :
      /\ tpc[s] \in {"update", "step", "on_start"} =>
           Elems(queue_[s]) \subseteq {parent_[s]} \ {NULL}
      /\ tpc[s] \in InScatter \cup {"compute"} \cup InGather =>
           /\ Elems(queue_[s]) \subseteq Elems(children_[s])
           /\ Distinct(queue_[s])
      /\ tpc[s] = "ogr_add" =>
           /\ popped[s] \in Elems(children_[s])
           /\ GradientsPushed(popped[s], iter[s])
           /\ popped[s] \notin Elems(queue_[s])
      /\ tpc[s] \in {"ogr_loop", "ogr_add"} => ci[s] = Cardinality(Gathered(s))

C17_Witness ==
    \E s \in Replicas :
      /\ tpc[s] = "ogr_add"
      /\ Len(children_[s]) = 2
      /\ ci[s] = 1
      /\ popped[s] = children_[s][1]
      /\ iter[s] = 1

\* Every replica's driver has run all its steps.
AllFinished == \A s \in Replicas : tpc[s] \in {"done", "joined"}

\* C18: a mailbox holds messages of the replica's parent and children only,
\* no sender twice, never the parent's together with a child's, so never
\* more than max(1, number of children); and every mailbox is empty once
\* all replicas have finished their last step.
C18_MailboxOccupancy ==
    \A s \in Replicas :
      /\ Elems(queue_[s]) \subseteq (Elems(children_[s]) \cup ({parent_[s]} \ {NULL}))
      /\ Distinct(queue_[s])
      /\ parent_[s] \in Elems(queue_[s]) => Len(queue_[s]) = 1
      /\ Len(queue_[s]) <= Max({1, Len(children_[s])})
      /\ AllFinished => queue_[s] = <<>>

C18_Witness ==
    \E s \in Replicas :
      /\ Len(queue_[s]) = 2
      /\ Len(children_[s]) = 2
      /\ iter[s] = 1

\* Replica p has issued its copy into c's data buffer and hipStreamSynchronize
\* has not returned yet.
CopyingData(p, c) == tpc[p] = "os_issued" /\ CopyTarget(p) = c

\* Replica c has issued its copy into its parent_grads_ buffer and
\* hipStreamSynchronize has not returned yet.
CopyingGrads(c) == tpc[c] = "ogr_issued"

\* C19: while a parent's copy into a child's data buffer is under way the
\* child is in neither hook nor in its forward/backward pass; while a
\* child's copy into its parent_grads_ buffer is under way the parent is in
\* the child's step, has no earlier hand-off of that child queued and is not
\* adding that buffer into its diff.
C19_NoBufferRace ==
    \A c \in Replicas \ {0} :
      /\ CopyingData(parent_[c], c) =>
           tpc[c] \notin ({"compute"} \cup InScatter \cup InGather)
      /\ CopyingGrads(c) =>
           /\ iter[parent_[c]] = iter[c]
           /\ c \notin Elems(queue_[parent_[c]])
           /\ popped[parent_[c]] # c

C19_Witness ==
    \E a, b \in Replicas \ {0} :
      /\ CopyingData(parent_[a], a)
      /\ CopyingGrads(b)
      /\ iter[b] = 1

\* The (device, peer) pair of replica s: its device and its parent's.
Edge(s) == <<device_[s], device_[parent_[s]]>>

\* The pairs that are enabled while the replicas exist: those of the
\* non-root replicas for which the runtime reported access possible.
EnabledEdges == {Edge(s) : s \in {t \in Replicas \ {0} : peer_access[Edge(t)]}}

\* C20: constructing a non-root replica enables its (device, peer) pair
\* exactly when the runtime reports access possible, enables nothing else,
\* never enables a pair that is enabled, and never fails; only Run's return,
\* which destroys the replicas, disables; while the replicas exist the
\* enabled pairs are exactly those of the replicas with access, one replica
\* a pair; and when Run has returned no pair is enabled.
C20_PeerAccessPairing ==
    [][ /\ run_pc' # "aborted"
        /\ \A s \in Slots \ {0} :
             (~built[s] /\ built'[s]) =>
               /\ Edge(s)' \notin peer_enabled
               /\ Edge(s)' \in peer_enabled' <=> peer_access'[Edge(s)']
               /\ peer_enabled' \ {Edge(s)'} = peer_enabled
        /\ peer_enabled' # peer_enabled =>
             \/ \E s \in Slots \ {0} : ~built[s] /\ built'[s]
             \/ run_pc # "returned" /\ run_pc' = "returned"
        /\ run_pc' = "returned" => peer_enabled' = {}
        /\ run_pc' # "returned" =>
             /\ peer_enabled' = EnabledEdges'
             /\ \A s, t \in Replicas' \ {0} : s # t => Edge(s)' # Edge(t)'
      ]_vars

C20_Witness ==
    /\ run_pc = "returned"
    /\ Len(gpus) = 3
    /\ peer_enabled = {}
    /\ \E s, t \in Slots \ {0} :
         /\ device_[s] # NULL /\ device_[t] # NULL
         /\ peer_access[Edge(s)]
         /\ ~peer_access[Edge(t)]

====
